---- MODULE Spec2Model ----
(***************************************************************************)
(* Model of drone_path_finder.py: validate_grid, the DronePathfinder       *)
(* constructor and its five searches (dfs, bfs, ucs, a_star, greedy).      *)
(*                                                                         *)
(* A cell is <<row, col>>, 0-indexed as in the source.  A grid is a        *)
(* sequence of rows, each a sequence of one-character symbols, so the      *)
(* source's grid[r][c] is grid[r + 1][c + 1] here.  Python's None is       *)
(* written <<>>: no cell and no returned path is the empty sequence.       *)
(***************************************************************************)
EXTENDS Integers, Sequences, FiniteSets, TLC

VARIABLES
    grid,       \* the grid get_grid() handed to main()
    pc,         \* where main() is: "input", "rejected", "validated", "chosen",
                \* "constructed", "run", "done"
    msg,        \* the reason validate_grid returned ("" before it ran)
    raised,     \* the exception the constructor raised ("none" if it returned)
    start,      \* self.start
    goal,       \* self.goal
    alg,        \* the method main() picked ("" before the pick)
    frontier,   \* the stack (dfs), queue (bfs) or heap (ucs, a_star, greedy)
    visited,    \* visited
    came_from,  \* came_from
    cost,       \* cost (ucs) and g_score (a_star)
    nodes,      \* nodes
    current,    \* current
    path        \* the returned path (<<>> is None)

vars == <<grid, pc, msg, raised, start, goal, alg, frontier, visited,
          came_from, cost, nodes, current, path>>

search_vars == <<frontier, visited, came_from, cost, nodes, current, path>>

----------------------------------------------------------------------------
(* Bounds of the model.                                                    *)

\* A grid typed row by row has at most this many cells.
MaxRawCells == 3

\* A validated grid that is searched has at most this many cells.
MaxCells == 7

----------------------------------------------------------------------------
(* Inputs.                                                                 *)

\* The symbols a typed row can hold: the alphabet and one foreign symbol.
Symbols == {"X", ".", "S", "G", "?"}

None == <<>>

Algorithms == {"dfs", "bfs", "ucs", "a_star", "greedy"}

\* presets[1], presets[2] and presets[3] of get_grid.
Preset1 ==
    << <<"S", ".", "X", ".", "G">>,
       <<".", "X", ".", "X", ".">>,
       <<".", ".", ".", ".", ".">> >>

Preset2 ==
    << <<"S", ".", ".", ".">>,
       <<".", "X", "X", ".">>,
       <<".", ".", ".", "G">> >>

Preset3 ==
    << <<"S", ".">>,
       <<".", "G">> >>

Presets == {Preset1, Preset2, Preset3}

RowsOfLen(n) == [1..n -> Symbols]

\* Every sequence of exactly r rows that holds at most n cells; get_grid
\* keeps a typed row only if it is not empty.
RECURSIVE RawSeqs(_, _)
RawSeqs(r, n) ==
    IF r = 0 THEN {<<>>}
    ELSE UNION {{<<row>> \o rest : row \in RowsOfLen(k), rest \in RawSeqs(r - 1, n - k)} :
                    k \in 1..(n - (r - 1))}

\* The grids a user can type: ragged rows, foreign symbols, any S and G count.
RawGrids == UNION {RawSeqs(r, MaxRawCells) : r \in 0..MaxRawCells}

CellsOf(r, c) == {<<i, j>> : i \in 0..(r - 1), j \in 0..(c - 1)}

\* The r-by-c grid with S at s, G at g and obstacles exactly at obs.
MakeGrid(r, c, s, g, obs) ==
    [i \in 1..r |-> [j \in 1..c |->
        IF <<i - 1, j - 1>> = s THEN "S"
        ELSE IF <<i - 1, j - 1>> = g THEN "G"
        ELSE IF <<i - 1, j - 1>> \in obs THEN "X"
        ELSE "."]]

\* Every rectangular grid over the alphabet with exactly one S and one G.
ShapeGrids(r, c) ==
    UNION {UNION {{MakeGrid(r, c, s, g, obs) :
                        obs \in SUBSET (CellsOf(r, c) \ {s, g})} :
                    g \in CellsOf(r, c) \ {s}} :
            s \in CellsOf(r, c)}

SearchGrids ==
    UNION {ShapeGrids(sh[1], sh[2]) :
            sh \in {x \in (1..MaxCells) \X (1..MaxCells) : x[1] * x[2] <= MaxCells}}

----------------------------------------------------------------------------
(* validate_grid.                                                          *)

\* cell not in 'X.SG': Python's substring test on the string 'X.SG'.
InAlphabetString(cell) ==
    cell \in {"", "X", ".", "S", "G", "X.", ".S", "SG", "X.S", ".SG", "X.SG"}

\* The first cell of a row that fails the test.
first_invalid(row) ==
    row[CHOOSE j \in 1..Len(row) :
            /\ ~InAlphabetString(row[j])
            /\ \A k \in 1..(j - 1) : InAlphabetString(row[k])]

\* The loop of validate_grid from row i on, with the counts so far.
RECURSIVE validate_rows(_, _, _, _, _)
validate_rows(g, i, cols, s_count, g_count) ==
    IF i > Len(g) THEN
        IF s_count # 1 THEN "Need exactly one S"
        ELSE IF g_count # 1 THEN "Need exactly one G"
        ELSE "Valid"
    ELSE IF Len(g[i]) # cols THEN "Unequal row lengths"
    ELSE IF \E j \in 1..Len(g[i]) : ~InAlphabetString(g[i][j]) THEN
        "Invalid symbol: " \o first_invalid(g[i])
    ELSE validate_rows(g, i + 1, cols,
            s_count + Cardinality({j \in 1..Len(g[i]) : g[i][j] = "S"}),
            g_count + Cardinality({j \in 1..Len(g[i]) : g[i][j] = "G"}))

\* validate_grid with the lengths of all rows checked before any symbol.
validate_grid_lengths_first(g) ==
    IF g = <<>> \/ g[1] = <<>> THEN "Empty grid"
    ELSE IF \E i \in 1..Len(g) : Len(g[i]) # Len(g[1]) THEN "Unequal row lengths"
    ELSE validate_rows(g, 1, Len(g[1]), 0, 0)

\* The reason validate_grid returns; it returns True exactly with "Valid".
validate_grid(g) ==
    IF g = <<>> \/ g[1] = <<>> THEN "Empty grid"
    ELSE validate_rows(g, 1, Len(g[1]), 0, 0)

----------------------------------------------------------------------------
(* DronePathfinder.__init__ and _find_pos.                                 *)

\* _find_pos from the k-th cell in row-major order on: the first cell that
\* holds symbol, None when the scan ends; an IndexError when grid[i][j] is
\* read past the end of a short row.
RECURSIVE find_pos_from(_, _, _, _, _)
find_pos_from(g, rows, cols, symbol, k) ==
    IF k >= rows * cols THEN [raised |-> "none", pos |-> None]
    ELSE LET i == k \div cols
             j == k % cols
         IN  IF j >= Len(g[i + 1]) THEN [raised |-> "IndexError", pos |-> None]
             ELSE IF g[i + 1][j + 1] = symbol THEN [raised |-> "none", pos |-> <<i, j>>]
             ELSE find_pos_from(g, rows, cols, symbol, k + 1)

find_pos(g, symbol) ==
    IF Len(g[1]) = 0 THEN [raised |-> "none", pos |-> None]
    ELSE find_pos_from(g, Len(g), Len(g[1]), symbol, 0)

\* The constructor: what it raises, and the start and goal it stores.
\* len(grid[0]) raises IndexError on the empty list.
construct(g) ==
    IF g = <<>> THEN [raised |-> "IndexError", start |-> None, goal |-> None]
    ELSE LET s == find_pos(g, "S")
             t == find_pos(g, "G")
         IN  IF s.raised # "none" THEN
                 [raised |-> s.raised, start |-> None, goal |-> None]
             ELSE IF t.raised # "none" THEN
                 [raised |-> t.raised, start |-> s.pos, goal |-> None]
             ELSE [raised |-> "none", start |-> s.pos, goal |-> t.pos]

----------------------------------------------------------------------------
(* The grid queries of DronePathfinder.                                    *)

\* directions without its last entry, the move east.
directions_without_east == << <<-1, 0>>, <<1, 0>>, <<0, -1>> >>

directions == << <<-1, 0>>, <<1, 0>>, <<0, -1>>, <<0, 1>> >>

\* _is_valid without the test for an obstacle.
is_valid_ignoring_obstacles(g, row, col) ==
    /\ 0 <= row /\ row < Len(g)
    /\ 0 <= col /\ col < Len(g[1])

is_valid(g, row, col) ==
    /\ 0 <= row /\ row < Len(g)
    /\ 0 <= col /\ col < Len(g[1])
    /\ g[row + 1][col + 1] # "X"

\* The traversable neighbours of pos, in the order of directions.
get_neighbors(g, pos) ==
    LET cand == [i \in 1..Len(directions) |-> <<pos[1] + directions[i][1], pos[2] + directions[i][2]>>]
    IN  SelectSeq(cand, LAMBDA p : is_valid(g, p[1], p[2]))

\* abs that returns its argument as it is.
abs_keeping_sign(x) == x

abs(x) == IF x < 0 THEN -x ELSE x

manhattan_dist(pos1, pos2) == abs(pos1[1] - pos2[1]) + abs(pos1[2] - pos2[2])

Reverse(s) == [i \in 1..Len(s) |-> s[Len(s) + 1 - i]]

\* The list _build_path collects before it reverses it.
RECURSIVE build_back(_, _)
build_back(cf, cur) ==
    IF cur \in DOMAIN cf THEN <<cur>> \o build_back(cf, cf[cur]) ELSE <<cur>>

\* _build_path that appends current before it follows came_from, and so
\* leaves out the last cell of the chain.
build_path_without_start(cf, cur) ==
    LET back == build_back(cf, cur) IN Reverse(SubSeq(back, 1, Len(back) - 1))

build_path(cf, cur) == Reverse(build_back(cf, cur))

\* d[k] = v on a dict.
Put(d, k, v) == [x \in DOMAIN d \cup {k} |-> IF x = k THEN v ELSE d[x]]

----------------------------------------------------------------------------
(* heapq on (key, cell) tuples.                                            *)

\* Python's tuple order on (key, (row, col)).
TupleLess(a, b) ==
    \/ a[1] < b[1]
    \/ /\ a[1] = b[1]
       /\ \/ a[2][1] < b[2][1]
          \/ a[2][1] = b[2][1] /\ a[2][2] < b[2][2]

\* A pop of the greatest tuple.
heappop_greatest(h) ==
    CHOOSE i \in 1..Len(h) :
        \A j \in 1..Len(h) : /\ ~TupleLess(h[i], h[j])
                             /\ (h[j] = h[i] => i <= j)

\* A pop that compares the keys only and takes the first pushed of the least.
heappop_first_pushed(h) ==
    CHOOSE i \in 1..Len(h) :
        \A j \in 1..Len(h) : /\ h[i][1] <= h[j][1]
                             /\ (h[j][1] = h[i][1] => i <= j)

\* The entry heappop returns: the least tuple.  The heap is kept here as the
\* list of its entries in push order; equal tuples are the same value, so
\* which of them leaves does not show.
heappop_index(h) ==
    CHOOSE i \in 1..Len(h) :
        \A j \in 1..Len(h) : /\ ~TupleLess(h[j], h[i])
                             /\ (h[j] = h[i] => i <= j)

RemoveAt(h, i) == SubSeq(h, 1, i - 1) \o SubSeq(h, i + 1, Len(h))

----------------------------------------------------------------------------
(* The five searches.  A search's locals are a record s; x_iter is one     *)
(* pass of its while loop, taken with a frontier that is not empty.        *)

\* The locals each method sets up before its loop.
init_locals(a, st, gl) ==
    [frontier  |-> IF a \in {"dfs", "bfs"} THEN <<st>>
                   ELSE IF a = "greedy" THEN << <<manhattan_dist(st, gl), st>> >>
                   ELSE << <<0, st>> >>,
     visited   |-> IF a = "bfs" THEN {st} ELSE {},
     came_from |-> <<>>,
     cost      |-> IF a \in {"ucs", "a_star"} THEN Put(<<>>, st, 0) ELSE <<>>,
     nodes     |-> 0,
     current   |-> None,
     path      |-> None,
     done      |-> FALSE]

\* return self._build_path(came_from, current), nodes
found(s) == [s EXCEPT !.path = build_path(s.came_from, s.current), !.done = TRUE]

\* The for loop of dfs over the neighbours still to handle.
RECURSIVE dfs_expand(_, _)
dfs_expand(nbrs, s) ==
    IF nbrs = <<>> THEN s
    ELSE LET neighbor == Head(nbrs)
         IN  dfs_expand(Tail(nbrs),
                IF neighbor \notin s.visited THEN
                    [s EXCEPT !.frontier = Append(@, neighbor),
                              !.came_from = IF neighbor \notin DOMAIN @
                                            THEN Put(@, neighbor, s.current) ELSE @]
                ELSE s)

\* dfs counting a cell only after the goal test.
dfs_iter_counting_late(g, gl, s) ==
    LET cur == s.frontier[Len(s.frontier)]
        s1 == [s EXCEPT !.frontier = SubSeq(@, 1, Len(@) - 1), !.current = cur]
    IN  IF cur \in s.visited THEN s1
        ELSE LET s2 == [s1 EXCEPT !.visited = @ \cup {cur}]
             IN  IF cur = gl THEN found(s2)
                 ELSE dfs_expand(get_neighbors(g, cur), [s2 EXCEPT !.nodes = @ + 1])

dfs_iter(g, gl, s) ==
    LET cur == s.frontier[Len(s.frontier)]
        s1 == [s EXCEPT !.frontier = SubSeq(@, 1, Len(@) - 1), !.current = cur]
    IN  IF cur \in s.visited THEN s1
        ELSE LET s2 == [s1 EXCEPT !.visited = @ \cup {cur}, !.nodes = @ + 1]
             IN  IF cur = gl THEN found(s2)
                 ELSE dfs_expand(get_neighbors(g, cur), s2)

\* The for loop of bfs.
RECURSIVE bfs_expand(_, _)
bfs_expand(nbrs, s) ==
    IF nbrs = <<>> THEN s
    ELSE LET neighbor == Head(nbrs)
         IN  bfs_expand(Tail(nbrs),
                IF neighbor \notin s.visited THEN
                    [s EXCEPT !.visited = @ \cup {neighbor},
                              !.came_from = Put(@, neighbor, s.current),
                              !.frontier = Append(@, neighbor)]
                ELSE s)

bfs_iter(g, gl, s) ==
    LET cur == Head(s.frontier)
        s1 == [s EXCEPT !.frontier = Tail(@), !.current = cur, !.nodes = @ + 1]
    IN  IF cur = gl THEN found(s1)
        ELSE bfs_expand(get_neighbors(g, cur), s1)

\* The for loop of ucs; new_cost is curr_cost + 1.
RECURSIVE ucs_expand(_, _, _)
ucs_expand(nbrs, new_cost, s) ==
    IF nbrs = <<>> THEN s
    ELSE LET neighbor == Head(nbrs)
         IN  ucs_expand(Tail(nbrs), new_cost,
                IF neighbor \notin DOMAIN s.cost \/ new_cost < s.cost[neighbor] THEN
                    [s EXCEPT !.cost = Put(@, neighbor, new_cost),
                              !.came_from = Put(@, neighbor, s.current),
                              !.frontier = Append(@, <<new_cost, neighbor>>)]
                ELSE s)

ucs_iter(g, gl, s) ==
    LET i == heappop_index(s.frontier)
        curr_cost == s.frontier[i][1]
        cur == s.frontier[i][2]
        s1 == [s EXCEPT !.frontier = RemoveAt(@, i), !.current = cur]
    IN  IF cur \in s.visited THEN s1
        ELSE LET s2 == [s1 EXCEPT !.visited = @ \cup {cur}, !.nodes = @ + 1]
             IN  IF cur = gl THEN found(s2)
                 ELSE ucs_expand(get_neighbors(g, cur), curr_cost + 1, s2)

\* The for loop of a_star; s.cost is g_score.
RECURSIVE a_star_expand(_, _, _)
a_star_expand(nbrs, gl, s) ==
    IF nbrs = <<>> THEN s
    ELSE LET neighbor == Head(nbrs)
             tentative_g == s.cost[s.current] + 1
             f_score == tentative_g + manhattan_dist(neighbor, gl)
         IN  a_star_expand(Tail(nbrs), gl,
                IF neighbor \notin DOMAIN s.cost \/ tentative_g < s.cost[neighbor] THEN
                    [s EXCEPT !.came_from = Put(@, neighbor, s.current),
                              !.cost = Put(@, neighbor, tentative_g),
                              !.frontier = Append(@, <<f_score, neighbor>>)]
                ELSE s)

a_star_iter(g, gl, s) ==
    LET i == heappop_index(s.frontier)
        cur == s.frontier[i][2]
        s1 == [s EXCEPT !.frontier = RemoveAt(@, i), !.current = cur]
    IN  IF cur \in s.visited THEN s1
        ELSE LET s2 == [s1 EXCEPT !.visited = @ \cup {cur}, !.nodes = @ + 1]
             IN  IF cur = gl THEN found(s2)
                 ELSE a_star_expand(get_neighbors(g, cur), gl, s2)

\* The for loop of greedy with the test dfs makes before it records a
\* predecessor.
RECURSIVE greedy_expand_keeping_first(_, _, _)
greedy_expand_keeping_first(nbrs, gl, s) ==
    IF nbrs = <<>> THEN s
    ELSE LET neighbor == Head(nbrs)
             h == manhattan_dist(neighbor, gl)
         IN  greedy_expand_keeping_first(Tail(nbrs), gl,
                IF neighbor \notin s.visited THEN
                    [s EXCEPT !.came_from = IF neighbor \notin DOMAIN @
                                            THEN Put(@, neighbor, s.current) ELSE @,
                              !.frontier = Append(@, <<h, neighbor>>)]
                ELSE s)

\* The for loop of greedy.
RECURSIVE greedy_expand(_, _, _)
greedy_expand(nbrs, gl, s) ==
    IF nbrs = <<>> THEN s
    ELSE LET neighbor == Head(nbrs)
             h == manhattan_dist(neighbor, gl)
         IN  greedy_expand(Tail(nbrs), gl,
                IF neighbor \notin s.visited THEN
                    [s EXCEPT !.came_from = Put(@, neighbor, s.current),
                              !.frontier = Append(@, <<h, neighbor>>)]
                ELSE s)

greedy_iter(g, gl, s) ==
    LET i == heappop_index(s.frontier)
        cur == s.frontier[i][2]
        s1 == [s EXCEPT !.frontier = RemoveAt(@, i), !.current = cur]
    IN  IF cur \in s.visited THEN s1
        ELSE LET s2 == [s1 EXCEPT !.visited = @ \cup {cur}, !.nodes = @ + 1]
             IN  IF cur = gl THEN found(s2)
                 ELSE greedy_expand(get_neighbors(g, cur), gl, s2)

\* One pass of the loop of method a.
iter(a, g, gl, s) ==
    CASE a = "dfs" -> dfs_iter(g, gl, s)
      [] a = "bfs" -> bfs_iter(g, gl, s)
      [] a = "ucs" -> ucs_iter(g, gl, s)
      [] a = "a_star" -> a_star_iter(g, gl, s)
      [] a = "greedy" -> greedy_iter(g, gl, s)

\* return None, nodes
not_found(s) == [s EXCEPT !.path = None, !.done = TRUE]

\* Method a from locals s to its return.
RECURSIVE run_from(_, _, _, _)
run_from(a, g, gl, s) ==
    IF s.done THEN s
    ELSE IF s.frontier = <<>> THEN not_found(s)
    ELSE run_from(a, g, gl, iter(a, g, gl, s))

\* getattr(DronePathfinder(g), a)(): the locals at the return.
run(a, g) ==
    LET e == construct(g)
    IN  run_from(a, g, e.goal, init_locals(a, e.start, e.goal))

----------------------------------------------------------------------------
(* The program: main() takes a grid, validates it, picks a method,         *)
(* constructs the pathfinder and runs the method.  Construct is also       *)
(* enabled on a grid that was never validated, as a direct caller of the   *)
(* class can do; main() itself searches validated grids only.              *)

Locals ==
    [frontier |-> frontier, visited |-> visited, came_from |-> came_from,
     cost |-> cost, nodes |-> nodes, current |-> current, path |-> path,
     done |-> pc = "done"]

SetLocals(s) ==
    /\ frontier' = s.frontier
    /\ visited' = s.visited
    /\ came_from' = s.came_from
    /\ cost' = s.cost
    /\ nodes' = s.nodes
    /\ current' = s.current
    /\ path' = s.path
    /\ pc' = IF s.done THEN "done" ELSE "run"

Init ==
    /\ grid \in RawGrids \cup SearchGrids \cup Presets
    /\ pc = "input"
    /\ msg = ""
    /\ raised = "none"
    /\ start = None
    /\ goal = None
    /\ alg = ""
    /\ frontier = <<>>
    /\ visited = {}
    /\ came_from = <<>>
    /\ cost = <<>>
    /\ nodes = 0
    /\ current = None
    /\ path = None

Validate ==
    /\ pc = "input"
    /\ msg' = validate_grid(grid)
    /\ pc' = IF msg' = "Valid" THEN "validated" ELSE "rejected"
    /\ UNCHANGED <<grid, raised, start, goal, alg, search_vars>>

ChooseAlgorithm ==
    /\ pc = "validated"
    /\ alg' \in Algorithms
    /\ pc' = "chosen"
    /\ UNCHANGED <<grid, msg, raised, start, goal, search_vars>>

Construct ==
    /\ pc \in {"input", "chosen"}
    /\ LET e == construct(grid)
       IN  /\ raised' = e.raised
           /\ start' = e.start
           /\ goal' = e.goal
    /\ pc' = "constructed"
    /\ UNCHANGED <<grid, msg, alg, search_vars>>

Begin ==
    /\ pc = "constructed"
    /\ alg \in Algorithms
    /\ raised = "none"
    /\ SetLocals(init_locals(alg, start, goal))
    /\ UNCHANGED <<grid, msg, raised, start, goal, alg>>

DfsStep ==
    /\ pc = "run"
    /\ alg = "dfs"
    /\ frontier # <<>>
    /\ SetLocals(dfs_iter(grid, goal, Locals))
    /\ UNCHANGED <<grid, msg, raised, start, goal, alg>>

BfsStep ==
    /\ pc = "run"
    /\ alg = "bfs"
    /\ frontier # <<>>
    /\ SetLocals(bfs_iter(grid, goal, Locals))
    /\ UNCHANGED <<grid, msg, raised, start, goal, alg>>

UcsStep ==
    /\ pc = "run"
    /\ alg = "ucs"
    /\ frontier # <<>>
    /\ SetLocals(ucs_iter(grid, goal, Locals))
    /\ UNCHANGED <<grid, msg, raised, start, goal, alg>>

AStarStep ==
    /\ pc = "run"
    /\ alg = "a_star"
    /\ frontier # <<>>
    /\ SetLocals(a_star_iter(grid, goal, Locals))
    /\ UNCHANGED <<grid, msg, raised, start, goal, alg>>

GreedyStep ==
    /\ pc = "run"
    /\ alg = "greedy"
    /\ frontier # <<>>
    /\ SetLocals(greedy_iter(grid, goal, Locals))
    /\ UNCHANGED <<grid, msg, raised, start, goal, alg>>

ReturnNone ==
    /\ pc = "run"
    /\ frontier = <<>>
    /\ SetLocals(not_found(Locals))
    /\ UNCHANGED <<grid, msg, raised, start, goal, alg>>

Next ==
    \/ Validate
    \/ ChooseAlgorithm
    \/ Construct
    \/ Begin
    \/ DfsStep
    \/ BfsStep
    \/ UcsStep
    \/ AStarStep
    \/ GreedyStep
    \/ ReturnNone

Spec == Init /\ [][Next]_vars

----------------------------------------------------------------------------
(* What the claims are measured against: the grid as a graph, independent  *)
(* of the searches.                                                        *)

GridCells(g) == {<<i, j>> : i \in 0..(Len(g) - 1), j \in 0..(Len(g[1]) - 1)}

Kind(g, c) == g[c[1] + 1][c[2] + 1]

OpenCells(g) == {c \in GridCells(g) : Kind(g, c) # "X"}

StartOf(g) == CHOOSE c \in GridCells(g) : Kind(g, c) = "S"

GoalOf(g) == CHOOSE c \in GridCells(g) : Kind(g, c) = "G"

\* p and q are one orthogonal move apart.
OneStep(p, q) ==
    \/ p[1] = q[1] /\ (p[2] - q[2] = 1 \/ q[2] - p[2] = 1)
    \/ p[2] = q[2] /\ (p[1] - q[1] = 1 \/ q[1] - p[1] = 1)

Around(g, layer, seen) ==
    {c \in OpenCells(g) \ seen : \E p \in layer : OneStep(p, c)}

\* The cells that moves through open cells reach from the cells seen.
RECURSIVE Closure(_, _)
Closure(g, seen) ==
    IF Around(g, seen, seen) = {} THEN seen
    ELSE Closure(g, seen \cup Around(g, seen, seen))

ReachableCells(g) == Closure(g, {StartOf(g)})

\* The least number of moves from the start to the goal, -1 if there is none;
\* layer holds the cells at exactly d moves.
RECURSIVE DistFrom(_, _, _, _)
DistFrom(g, seen, layer, d) ==
    IF GoalOf(g) \in layer THEN d
    ELSE IF Around(g, layer, seen) = {} THEN -1
    ELSE DistFrom(g, seen \cup Around(g, layer, seen), Around(g, layer, seen), d + 1)

ShortestDist(g) == DistFrom(g, {StartOf(g)}, {StartOf(g)}, 0)

GoalReachable(g) == GoalOf(g) \in ReachableCells(g)

Returned == pc = "done"

\* How many cells of symbol a raw grid holds.
RECURSIVE CountFrom(_, _, _)
CountFrom(g, symbol, i) ==
    IF i > Len(g) THEN 0
    ELSE Cardinality({j \in 1..Len(g[i]) : g[i][j] = symbol}) + CountFrom(g, symbol, i + 1)

Count(g, symbol) == CountFrom(g, symbol, 1)

----------------------------------------------------------------------------
\* C1: when the goal is reachable, bfs, ucs and a_star each return a path
\* whose number of moves is the shortest distance from start to goal (so the
\* three lengths are equal), and dfs and greedy return a path of at least
\* that many moves.
C1_OptimalLength ==
    (Returned /\ GoalReachable(grid)) =>
        IF alg \in {"bfs", "ucs", "a_star"}
        THEN Len(path) - 1 = ShortestDist(grid)
        ELSE Len(path) - 1 >= ShortestDist(grid)

\* A returned shortest path that has to go around obstacles.
C1_Witness ==
    /\ Returned
    /\ alg = "a_star"
    /\ path # None
    /\ Len(path) - 1 = ShortestDist(grid)
    /\ Len(path) - 1 > manhattan_dist(start, goal)

\* C2: on every validated grid, reachable goal or not, the nodes count of
\* a_star is at most the nodes count of ucs on the same grid.
C2_AStarNoMoreThanUcs ==
    (Returned /\ alg = "a_star") => nodes <= run("ucs", grid).nodes

\* a_star returned having visited strictly fewer cells than ucs does.
C2_Witness ==
    /\ Returned
    /\ alg = "a_star"
    /\ path # None
    /\ nodes < run("ucs", grid).nodes

\* C3: whenever a search returns a path, every cell of the path is in
\* visited and the nodes count is at least the number of cells of the path.
C3_NodesCoverPath ==
    (Returned /\ path # None) =>
        /\ nodes >= Len(path)
        /\ \A i \in 1..Len(path) : path[i] \in visited

\* dfs returned a path after visiting cells that are not on it.
C3_Witness ==
    /\ Returned
    /\ alg = "dfs"
    /\ path # None
    /\ nodes > Len(path)

\* C4 as stated: on preset 1 bfs returns a path of exactly 7 cells with a
\* nodes count of at most 15.
C4_SevenCells ==
    (Returned /\ alg = "bfs" /\ grid = Preset1) =>
        /\ Len(path) = 7
        /\ nodes <= 15

\* C4 amended: on preset 1 bfs returns a path of exactly 9 cells (8 moves,
\* the shortest distance) with a nodes count of at most 15.
C4_NineCells ==
    (Returned /\ alg = "bfs" /\ grid = Preset1) =>
        /\ Len(path) = 9
        /\ Len(path) - 1 = ShortestDist(Preset1)
        /\ nodes <= 15

\* bfs returned on preset 1.
C4_Witness ==
    /\ Returned
    /\ alg = "bfs"
    /\ grid = Preset1
    /\ path # None
    /\ path[Len(path)] = <<0, 4>>

Scenario2 == << <<"S", "X">>, <<"X", "G">> >>

\* What is left to do in a search: the moves out of the cells not yet
\* visited, and the entries of the frontier.
Remaining(vis, fr) == Len(directions) * Cardinality(OpenCells(grid) \ vis) + Len(fr)

\* C5: on a validated grid whose goal is not reachable, each search ends
\* (every pass of its loop lowers what is left to do) and returns None with
\* a nodes count equal to the number of cells reachable from the start; on
\* [[S,X],[X,G]] that count is 1.
C5_NoPath ==
    [][(pc = "run" /\ ~GoalReachable(grid)) =>
        /\ frontier # <<>> => Remaining(visited', frontier') < Remaining(visited, frontier)
        /\ pc' = "done" =>
                /\ frontier = <<>>
                /\ path' = None
                /\ nodes' = Cardinality(ReachableCells(grid))
                /\ grid = Scenario2 => nodes' = 1]_vars

\* A search returned None after visiting several cells, the goal walled off.
C5_Witness ==
    /\ Returned
    /\ path = None
    /\ ~GoalReachable(grid)
    /\ nodes = Cardinality(ReachableCells(grid))
    /\ nodes >= 3

\* C10: every returned path starts at the start, ends at the goal, moves one
\* orthogonal step at a time through cells that are in bounds and not
\* obstacles, and holds no cell twice.
C10_WellFormedPath ==
    (Returned /\ path # None) =>
        /\ path[1] = StartOf(grid)
        /\ path[Len(path)] = GoalOf(grid)
        /\ \A i \in 1..(Len(path) - 1) : OneStep(path[i], path[i + 1])
        /\ \A i \in 1..Len(path) : path[i] \in OpenCells(grid)
        /\ \A i, j \in 1..Len(path) : path[i] = path[j] => i = j

\* greedy returned a path of several moves on a grid with an obstacle.
C10_Witness ==
    /\ Returned
    /\ alg = "greedy"
    /\ path # None
    /\ Len(path) >= 4
    /\ OpenCells(grid) # GridCells(grid)

\* C6 as stated: constructing the pathfinder on a rectangular grid that has
\* no S, no G, more than one S or more than one G fails at construction,
\* validated or not.
C6_ConstructRejects ==
    (/\ pc = "constructed"
     /\ grid # <<>>
     /\ \A i \in 1..Len(grid) : Len(grid[i]) = Len(grid[1])
     /\ Count(grid, "S") # 1 \/ Count(grid, "G") # 1) =>
        raised # "none"

\* The first row, in order, that has another length than the first row or
\* holds a symbol outside the alphabet; 0 if there is none.
FirstBadRow(g) ==
    LET bad == {i \in 1..Len(g) :
                    \/ Len(g[i]) # Len(g[1])
                    \/ \E j \in 1..Len(g[i]) : g[i][j] \notin {"X", ".", "S", "G"}}
    IN  IF bad = {} THEN 0 ELSE CHOOSE i \in bad : \A k \in bad : i <= k

\* The first symbol of a row that is outside the alphabet.
FirstForeign(row) ==
    LET bad == {j \in 1..Len(row) : row[j] \notin {"X", ".", "S", "G"}}
    IN  row[CHOOSE j \in bad : \A k \in bad : j <= k]

\* The reason of the counts check, the last check.
CountsReason(g) ==
    IF Count(g, "S") # 1 THEN "Need exactly one S"
    ELSE IF Count(g, "G") # 1 THEN "Need exactly one G"
    ELSE "Valid"

\* The reason of the first violated check when the checks run one after the
\* other over the whole grid: empty, row lengths, alphabet, counts.
ReasonCheckByCheck(g) ==
    IF g = <<>> \/ g[1] = <<>> THEN "Empty grid"
    ELSE IF \E i \in 1..Len(g) : Len(g[i]) # Len(g[1]) THEN "Unequal row lengths"
    ELSE IF FirstBadRow(g) # 0 THEN "Invalid symbol: " \o FirstForeign(g[FirstBadRow(g)])
    ELSE CountsReason(g)

\* The reason of the first violation when the length and alphabet checks run
\* row by row, the length of a row before its symbols.
ReasonRowByRow(g) ==
    IF g = <<>> \/ g[1] = <<>> THEN "Empty grid"
    ELSE IF FirstBadRow(g) # 0 THEN
        IF Len(g[FirstBadRow(g)]) # Len(g[1]) THEN "Unequal row lengths"
        ELSE "Invalid symbol: " \o FirstForeign(g[FirstBadRow(g)])
    ELSE CountsReason(g)

Validated == pc \in {"rejected", "validated"}

\* C7 as stated: the reason is that of the first violated check in the order
\* empty, row lengths, alphabet, counts, so that a grid with a foreign symbol
\* and a row of another length is reported as unequal row lengths.
C7_CheckByCheck ==
    Validated => msg = ReasonCheckByCheck(grid)

\* C7 amended: after the empty check, the rows are taken in order and each
\* row's length is checked before its symbols; the counts of S and of G are
\* checked after all rows.  The reason is that of the first violation met: a
\* foreign symbol in a row before the first row of another length is
\* reported as an invalid symbol, and two S with no violation before them as
\* the start count.
C7_RowByRow ==
    Validated =>
        /\ msg = ReasonRowByRow(grid)
        /\ (pc = "validated") = (msg = "Valid")
        /\ (FirstBadRow(grid) = 0 /\ grid # <<>> /\ grid[1] # <<>> /\ Count(grid, "S") = 2)
                => msg = "Need exactly one S"

\* A grid with a foreign symbol and, further down, a row of another length
\* was rejected for the symbol.
C7_Witness ==
    /\ pc = "rejected"
    /\ msg = "Invalid symbol: ?"
    /\ \E i \in 1..Len(grid) : Len(grid[i]) # Len(grid[1])

\* The cells one pass of greedy pushes: the open neighbours of the cell it
\* expanded that are not visited.
GreedyPushed ==
    IF nodes' = nodes + 1 /\ pc' = "run"
    THEN {c \in OpenCells(grid) : OneStep(current', c) /\ c \notin visited'}
    ELSE {}

InGreedy == alg = "greedy" /\ pc = "run"

\* C8 as stated: in greedy the predecessor recorded for a cell is that of
\* its first push; no later push changes it.
C8_FirstPushKept ==
    [][InGreedy =>
        \A c \in DOMAIN came_from :
            c \in DOMAIN came_from' /\ came_from'[c] = came_from[c]]_vars

\* C8 amended: in greedy every push of a cell records the cell being
\* expanded as its predecessor, replacing the one an earlier push recorded;
\* the predecessor of a cell no longer changes once the cell is visited, and
\* a pass changes no predecessor but those of the cells it pushes.
C8_LastPushKept ==
    [][InGreedy =>
        /\ \A c \in GreedyPushed : c \in DOMAIN came_from' /\ came_from'[c] = current'
        /\ \A c \in DOMAIN came_from' \ GreedyPushed :
                c \in DOMAIN came_from /\ came_from'[c] = came_from[c]
        /\ \A c \in DOMAIN came_from \cap visited : came_from'[c] = came_from[c]]_vars

\* How many entries of the heap are for cell c.
Entries(h, c) == Cardinality({i \in 1..Len(h) : h[i][2] = c})

\* greedy has pushed a cell twice, from two cells, and holds the second as
\* its predecessor.
C8_Witness ==
    /\ InGreedy
    /\ \E c \in DOMAIN came_from :
            /\ c \notin visited
            /\ Entries(frontier, c) >= 2
            /\ came_from[c] = current

InAStar == alg = "a_star" /\ pc = "run" /\ frontier # <<>>

\* The least priority among the entries of a heap.
MinKey(h) == CHOOSE k \in {h[i][1] : i \in 1..Len(h)} : \A i \in 1..Len(h) : k <= h[i][1]

\* The entry of least priority that was pushed first.
FirstPushed(h) ==
    CHOOSE i \in 1..Len(h) :
        /\ h[i][1] = MinKey(h)
        /\ \A j \in 1..Len(h) : h[j][1] = MinKey(h) => i <= j

\* (row, col) order on cells.
CellLeq(p, q) == p[1] < q[1] \/ (p[1] = q[1] /\ p[2] <= q[2])

\* C9 as stated: among the entries of a_star's frontier of equal priority,
\* the one pushed first is popped first.
C9_EarlierPushFirst ==
    [][InAStar => current' = frontier[FirstPushed(frontier)][2]]_vars

\* C9 amended: a_star pops an entry of least priority f, and among entries
\* of equal priority the one whose cell is least in (row, col) order is
\* popped first, whatever the order of the pushes.
C9_SmallerCellFirst ==
    [][InAStar =>
        /\ \E i \in 1..Len(frontier) :
                frontier[i][1] = MinKey(frontier) /\ frontier[i][2] = current'
        /\ \A i \in 1..Len(frontier) :
                frontier[i][1] = MinKey(frontier) => CellLeq(current', frontier[i][2])]_vars

\* a_star has pushed two entries of equal, least priority, the later one for
\* the smaller cell.
C9_Witness ==
    /\ InAStar
    /\ nodes >= 1
    /\ \E i, j \in 1..Len(frontier) :
            /\ i < j
            /\ frontier[i][1] = MinKey(frontier)
            /\ frontier[j][1] = MinKey(frontier)
            /\ frontier[j][2] # frontier[i][2]
            /\ CellLeq(frontier[j][2], frontier[i][2])

====
